---- MODULE Spec2Model ----
(***************************************************************************)
(* Model of the write-once artifact store of                               *)
(* src/libraries/datastore/data-store/data-store.ts: DataStore, DataSink,  *)
(* DataHandle and the read-through DataSource.                             *)
(*                                                                         *)
(* Strings are sequences of tokens.  A token is one character, except that *)
(* the scheme prefixes "mem://" and "file://", the decimal rendering of    *)
(* the uid counter and the literal "$(this-folder)" are one token each.    *)
(* Objects (Data records) live in the heap `recs`; the store maps a key to *)
(* the index of its record, so that two keys can alias one record.         *)
(* Every asynchronous function is cut at its awaits: one action per        *)
(* synchronous segment, interleaved freely (cooperative scheduling).       *)
(***************************************************************************)
EXTENDS Integers, Sequences, FiniteSets, TLC

(* ------------------------------ bounds -------------------------------- *)
\* number of calls the clients make in one behaviour: writes and forwards on the
\* store, and reads that start a promise on a read-through view
MaxOps == 3

\* number of handles a fixed view is constructed with
MaxHandles == 3

\* number of entries of a mapping table given to DataHandle.Blame
MaxEntries == 3

\* number of Blame calls and of reads of a flattened table the clients make
MaxBlames == 1

\* number of reads of a derived view the clients make
MaxCalls == 2

\* depth of recursion at which the engine throws RangeError (stack overflow)
StackLimit == 5

(* ------------------------------ strings ------------------------------- *)
\* the literal $(this-folder), line 122
ThisFolder == "$(this-folder)"

\* DataStore.BaseUri, line 145
BaseUri == <<"mem://">>

SchemeTokens == {"mem://", "file://"}

\* descriptions, contents and identities the callers write with
Descriptions == {<<"a">>}
WriteInputs ==
  { [description |-> <<"a">>, data |-> <<"x">>, identity |-> << <<"file://", "i">> >>],
    [description |-> <<"b", "/", "c">>, data |-> <<"y">>,
     identity |-> << <<"file://", "i">>, <<"file://", "j">> >>] }

\* external resources read through the views
ExtUris == { <<"file://", "d", "/", "f">>, <<"file://", "$", "$", "/", "f">> }

\* what fs.ReadFile / ReadUri may yield: text, null, or an exception
Null == [kind |-> "null", text |-> <<>>]
Throw == [kind |-> "throw", text |-> <<>>]
Text(t) == [kind |-> "text", text |-> t]
FetchOutcomes ==
  { Null, Throw, Text(<<>>), Text(<<"x">>), Text(<<ThisFolder, "x", ThisFolder>>) }

\* an empty string counts as a value
Truthy_emptyToo(v) == v.kind = "text"

\* JavaScript truthiness of a string | null value
Truthy(v) == v.kind = "text" /\ v.text # <<>>

\* encodeURIComponent, line 229: unreserved characters are kept, every other
\* character becomes its percent escape
EscapeOf(c) ==
  CASE c = "/" -> <<"%", "2", "F">>
    [] c = "$" -> <<"%", "2", "4">>
    [] c = "?" -> <<"%", "3", "F">>
    [] c = "%" -> <<"%", "2", "5">>
    [] c = "file://" -> <<"f", "i", "l", "e", "%", "3", "A", "%", "2", "F", "%", "2", "F">>
    [] c = "mem://" -> <<"m", "e", "m", "%", "3", "A", "%", "2", "F", "%", "2", "F">>
    [] OTHER -> <<c>>

RECURSIVE encodeURIComponent(_)
encodeURIComponent(s) ==
  IF s = <<>> THEN <<>> ELSE EscapeOf(Head(s)) \o encodeURIComponent(Tail(s))

\* ResolveUri of @microsoft.azure/uri: an absolute uri resolves to itself, a
\* relative one is appended to the base
ResolveUri(base, uri) ==
  IF uri # <<>> /\ uri[1] \in SchemeTokens THEN uri ELSE base \o uri

\* positions of "/" in a uri
SlashesOf(uri) == {i \in 1..Len(uri) : uri[i] = "/"}

\* ParentFolderUri of @microsoft.azure/uri: the location of the containing
\* folder (scheme://dir for scheme://dir/file.ext), null when there is none
ParentFolderUri(uri) ==
  IF SlashesOf(uri) = {} THEN Null
  ELSE Text(SubSeq(uri, 1, (CHOOSE i \in SlashesOf(uri) : \A j \in SlashesOf(uri) : j <= i) - 1))

\* String.prototype.replace's expansion of a replacement string (line 122 passes
\* `parent` as the replacement): $$ gives $, $& the match, $` the text before
\* the match and $' the text after it (the pattern has no capture groups)
RECURSIVE GetSubstitution(_, _, _, _)
GetSubstitution(replacement, matched, before, after) ==
  IF replacement = <<>> THEN <<>>
  ELSE IF /\ replacement[1] = "$"
          /\ Len(replacement) >= 2
          /\ replacement[2] \in {"$", "&", "`", "'"}
       THEN (CASE replacement[2] = "$" -> <<"$">>
               [] replacement[2] = "&" -> matched
               [] replacement[2] = "`" -> before
               [] replacement[2] = "'" -> after)
            \o GetSubstitution(SubSeq(replacement, 3, Len(replacement)), matched, before, after)
       ELSE <<replacement[1]>> \o GetSubstitution(Tail(replacement), matched, before, after)

\* data.replace(/\$\(this-folder\)/g, parent), line 122
RECURSIVE ReplaceFrom(_, _, _)
ReplaceFrom(data, i, parent) ==
  IF i > Len(data) THEN <<>>
  ELSE (IF data[i] = ThisFolder
        THEN GetSubstitution(parent, <<ThisFolder>>, SubSeq(data, 1, i - 1),
                             SubSeq(data, i + 1, Len(data)))
        ELSE <<data[i]>>)
       \o ReplaceFrom(data, i + 1, parent)

ReplaceThisFolder(data, parent) == ReplaceFrom(data, 1, parent)

(* ------------------------------- state -------------------------------- *)
VARIABLES
  store,      \* DataStore.store: key -> index of its Data record in recs
  recs,       \* the Data objects created so far
  uid,        \* DataStore.uid
  cancelled,  \* cancellationToken.isCancellationRequested
  uris,       \* ReadThroughDataSource.uris, per view
  cache,      \* ReadThroughDataSource.cache, per view: uri -> the promise's state
  fetches,    \* per view and uri: number of times line 118 ran
  log,        \* the write and forward calls made so far, in call order, with the
              \* arguments, the key createUri gave and how the call ended
  answer      \* the synchronous call (fixed view, blame, derived view) a client
              \* made last, with its arguments and what it returned or threw

vars == <<store, recs, uid, cancelled, uris, cache, fetches, log, answer>>

\* the read-through views obtained from the one store (GetReadThroughScope)
Views == {"v1", "v2"}

NoKey == <<>>
Undefined == "undefined"

\* no synchronous call has been made
NoAnswer == [op |-> "none", calls |-> 0]

\* a sourceMapFactory, line 182: the entries of the table it yields, in generated
\* order, where the source Self stands for the key of the handle it is called with
Factory(mappings) == [given |-> TRUE, mappings |-> mappings]
Self == <<"self">>

\* sourceMapFactory is not given, line 190
NoFactory == [given |-> FALSE, mappings |-> <<>>]

\* the empty object {}
EmptyFcn == [x \in {} |-> 0]

(* ------------------------------ DataStore ----------------------------- *)
\* ThrowIfCancelled, lines 152-156: TRUE when it throws
ThrowIfCancelled(c) == c

\* this.store[uri] as a condition, lines 170, 198, 254
Has(st, uri) == uri \in DOMAIN st

\* the counter is not advanced
NextUid_stuck(n) == n

\* this.uid++, line 229
NextUid(n) == n + 1

\* the key is made from the description alone
createUri_noCounter(n, description) ==
  ResolveUri(BaseUri, <<"?">> \o encodeURIComponent(description))

\* createUri, lines 228-230: the key made from the counter value n
createUri(n, description) ==
  ResolveUri(BaseUri, <<ToString(n), "?">> \o encodeURIComponent(description))

\* new DataHandle(uri, data), line 257
DataHandle(key, read) == [key |-> key, read |-> read]
NoHandle == DataHandle(NoKey, 0)

\* DataStore.Read, lines 251-258.  It changes no state: it is evaluated where a
\* caller reads
Read(st, uri) ==
  LET u == ResolveUri(BaseUri, uri) IN
  IF ~Has(st, u) THEN [status |-> "NotFound", handle |-> NoHandle]
  ELSE [status |-> "ok", handle |-> DataHandle(u, st[u])]

\* DataHandle.ReadData and DataHandle.identity, lines 346-352
ReadData(rs, handle) == rs[handle.read].data
IdentityOf(rs, handle) == rs[handle.read].identity

\* the occupied key is overwritten
WriteDataInternal_overwrite(st, rs, c, uri, data, metadata, identity) ==
  IF ThrowIfCancelled(c)
  THEN [status |-> "Cancelled", store |-> st, recs |-> rs]
  ELSE [status |-> "pending",
        store |-> [k \in DOMAIN st \cup {uri} |-> IF k = uri THEN Len(rs) + 1 ELSE st[k]],
        recs |-> Append(rs, [data |-> data, metadata |-> metadata, identity |-> identity])]

\* the record is created without the identity it was given
WriteDataInternal_dropsIdentity(st, rs, c, uri, data, metadata, identity) ==
  IF ThrowIfCancelled(c)
  THEN [status |-> "Cancelled", store |-> st, recs |-> rs]
  ELSE IF Has(st, uri)
  THEN [status |-> "WriteConflict", store |-> st, recs |-> rs]
  ELSE [status |-> "pending",
        store |-> st @@ (uri :> Len(rs) + 1),
        recs |-> Append(rs, [data |-> data, metadata |-> metadata, identity |-> <<>>])]

\* WriteDataInternal, lines 168-180: the outcome and the store and heap it leaves
WriteDataInternal(st, rs, c, uri, data, metadata, identity) ==
  IF ThrowIfCancelled(c)
  THEN [status |-> "Cancelled", store |-> st, recs |-> rs]
  ELSE IF Has(st, uri)
  THEN [status |-> "WriteConflict", store |-> st, recs |-> rs]
  ELSE [status |-> "pending",
        store |-> st @@ (uri :> Len(rs) + 1),
        recs |-> Append(rs, [data |-> data, metadata |-> metadata, identity |-> identity])]

\* const metadata = <any>{}, line 186
EmptyMetadata == [artifactType |-> Undefined]

\* a RawSourceMap of the source-map package, line 8: the artifact it is the map
\* of, the sources its entries name and its entries, in generated order
RawSourceMap(file, mappings) ==
  [file |-> file, sources |-> {mappings[i].source : i \in DOMAIN mappings},
   mappings |-> mappings]

\* new SourceMapGenerator().toJSON(), line 191
EmptySourceMap == RawSourceMap(NoKey, <<>>)

\* new Lazy(factory) of ../lazy, lines 189-224: nothing is computed yet.  status
\* is unset, ok or the error the factory threw; runs counts the factory's runs
\* and reads the accesses to Value
Lazy(blank) == [status |-> "unset", value |-> blank, runs |-> 0, reads |-> 0]

\* the names of the derived views, lines 25-29
ViewNames ==
  {"sourceMap", "sourceMapEachMappingByLine", "inputSourceMap", "yamlAst", "lineIndices"}

\* the metadata object as lines 188-224 fill it in; scope is what the factories
\* of the views capture of WriteData's frame
Metadata(artifact, uri, sourceMapFactory) ==
  [artifactType |-> artifact,
   scope |-> [uri |-> uri, sourceMapFactory |-> sourceMapFactory],
   sourceMap |-> Lazy(EmptySourceMap),
   sourceMapEachMappingByLine |-> Lazy(EmptyFcn),
   inputSourceMap |-> Lazy(EmptySourceMap),
   yamlAst |-> Lazy(<<>>),
   lineIndices |-> Lazy(<<>>)]

\* an entry of the call log
Call(op, key, src, description, data, artifact, identity, sourceMapFactory, owner, status) ==
  [op |-> op, key |-> key, src |-> src, description |-> description, data |-> data,
   artifact |-> artifact, identity |-> identity, sourceMapFactory |-> sourceMapFactory,
   owner |-> owner, status |-> status]

\* the outcome of the WriteDataInternal call WriteData makes, line 187
WriteDataStatus(description, data, identity) ==
  WriteDataInternal(store, recs, cancelled, createUri(uid, description), data,
                    EmptyMetadata, identity).status

\* WriteData up to its await, lines 182-187, called by `owner` (a client of the
\* store or sink, or a read-through view)
WriteDataBegin(description, data, artifact, identity, sourceMapFactory, owner) ==
  LET uri == createUri(uid, description)
      r == WriteDataInternal(store, recs, cancelled, uri, data, EmptyMetadata, identity)
  IN /\ uid' = NextUid(uid)
     /\ store' = r.store
     /\ recs' = r.recs
     /\ log' = Append(log, Call("write", uri, NoKey, description, data, artifact, identity,
                                sourceMapFactory, owner, r.status))

\* the slot is never found filled
Cached_never(c, uri) == FALSE

\* !this.cache[uri] is false, line 105
Cached(c, uri) == uri \in DOMAIN c

\* a promise of the cache: where its async body stands, the key of the handle it
\* settles to, whether a second Read call was handed it before its fetch
\* settled, and what line 118 yielded
Promise(phase, key, shared, fetched) ==
  [phase |-> phase, key |-> key, shared |-> shared, fetched |-> fetched]

\* the body of the promise in slot uri of view v stands at `phase`
Running(v, uri, phase) == uri \in DOMAIN cache[v] /\ cache[v][uri].phase = phase

Settled(p) == p.phase \in {"resolved", "rejected"}

Count(f, uri) == IF uri \in DOMAIN f THEN f[uri] ELSE 0
Bump(f, uri) == [k \in DOMAIN f \cup {uri} |-> IF k = uri THEN Count(f, uri) + 1 ELSE f[k]]

\* the number of promises started so far
RECURSIVE SumOver(_, _)
SumOver(S, f) ==
  IF S = {} THEN 0
  ELSE LET x == CHOOSE y \in S : TRUE IN Cardinality(DOMAIN f[x]) + SumOver(S \ {x}, f)

Started == SumOver(Views, cache)

\* the clients may make another call
Budget ==
  Cardinality({i \in 1..Len(log) : log[i].owner = "client"}) + Started < MaxOps

\* DataStore.WriteData called directly or through DataSink.write, lines 182-187, 234
WriteData(in, artifact) ==
  /\ Budget
  /\ WriteDataBegin(in.description, in.data, artifact, in.identity, NoFactory, "client")
  /\ UNCHANGED <<cancelled, uris, cache, fetches, answer>>

\* DataSink.WriteDataWithSourceMap, lines 312-314, 234, and DataStore.WriteData
\* called with a sourceMapFactory, lines 182-187
WriteDataWithSourceMap(in, artifact, sourceMapFactory) ==
  /\ Budget
  /\ WriteDataBegin(in.description, in.data, artifact, in.identity, sourceMapFactory, "client")
  /\ UNCHANGED <<cancelled, uris, cache, fetches, answer>>

\* WriteData after its await, lines 188-225: the metadata object is filled in
\* and the handle is returned
WriteDataResume(i) ==
  /\ log[i].op = "write"
  /\ log[i].status = "pending"
  /\ recs' = [recs EXCEPT ![store[log[i].key]].metadata =
                              Metadata(log[i].artifact, log[i].key, log[i].sourceMapFactory)]
  /\ log' = [log EXCEPT ![i].status = "ok"]
  /\ UNCHANGED <<store, uid, cancelled, uris, cache, fetches, answer>>

\* the new key gets a copy of the record
Forward_copy(description, input) ==
  /\ Budget
  /\ LET uri == createUri(uid, description) IN
     /\ uid' = NextUid(uid)
     /\ recs' = Append(recs, recs[store[input.key]])
     /\ store' = [k \in DOMAIN store \cup {uri} |-> IF k = uri THEN Len(recs') ELSE store[k]]
     /\ log' = Append(log, Call("forward", uri, input.key, description, <<>>, Undefined, <<>>,
                                NoFactory, "client", Read(store', uri).status))
  /\ UNCHANGED <<cancelled, uris, cache, fetches, answer>>

\* the forward closure of getDataSink, lines 235-239 (DataSink.Forward, 328-330)
Forward(description, input) ==
  /\ Budget
  /\ LET uri == createUri(uid, description) IN
     /\ uid' = NextUid(uid)
     /\ store' = [k \in DOMAIN store \cup {uri} |-> IF k = uri THEN store[input.key] ELSE store[k]]
     /\ log' = Append(log, Call("forward", uri, input.key, description, <<>>, Undefined, <<>>,
                                NoFactory, "client", Read(store', uri).status))
  /\ UNCHANGED <<recs, cancelled, uris, cache, fetches, answer>>

\* the owner of the CancellationToken requests cancellation
Cancel ==
  /\ ~cancelled
  /\ cancelled' = TRUE
  /\ UNCHANGED <<store, recs, uid, uris, cache, fetches, log, answer>>

\* the handles a client can hold: one per key of the store
Handles == {DataHandle(k, store[k]) : k \in DOMAIN store}

(* ------------------------ ReadThroughDataSource ----------------------- *)
\* the promise Read puts in an empty slot, lines 106-109: its body has run up to
\* its first await, so store.Read(uri) has been called
NewPromise(uri) ==
  IF Read(store, uri).status = "ok"
  THEN Promise("probeHit", Read(store, uri).handle.key, FALSE, Null)
  ELSE Promise("probeMiss", NoKey, FALSE, Null)

\* the promise has not gone past its fetch
BeforeFetched(p) == p.phase \in {"probeHit", "probeMiss", "fetching"}

\* ReadThroughDataSource.Read, lines 103-137: a call that starts the promise, or
\* one that is handed the promise of the slot (line 136) before its fetch has
\* settled; a later call is handed the promise too and changes nothing
RTRead(v, uri) ==
  /\ IF ~Cached(cache[v], uri)
     THEN /\ Budget
          /\ cache' = [cache EXCEPT ![v] =
                         [k \in DOMAIN cache[v] \cup {uri} |->
                            IF k = uri THEN NewPromise(uri) ELSE cache[v][k]]]
     ELSE /\ BeforeFetched(cache[v][uri])
          /\ cache' = [cache EXCEPT ![v][uri].shared = TRUE]
  /\ UNCHANGED <<store, recs, uid, cancelled, uris, fetches, log, answer>>

\* the uri is recorded whatever the probe found
RTProbeResume_pushAlways(v, uri) ==
  /\ \/ /\ Running(v, uri, "probeHit")
        /\ cache' = [cache EXCEPT ![v][uri].phase = "resolved"]
        /\ UNCHANGED fetches
     \/ /\ Running(v, uri, "probeMiss")
        /\ fetches' = [fetches EXCEPT ![v] = Bump(fetches[v], uri)]
        /\ cache' = [cache EXCEPT ![v][uri].phase = "fetching"]
  /\ uris' = [uris EXCEPT ![v] = Append(uris[v], uri)]
  /\ UNCHANGED <<store, recs, uid, cancelled, log, answer>>

\* lines 109-118: the body resumes after the probe
RTProbeResume(v, uri) ==
  /\ \/ /\ Running(v, uri, "probeHit")
        /\ uris' = [uris EXCEPT ![v] = Append(uris[v], uri)]
        /\ cache' = [cache EXCEPT ![v][uri].phase = "resolved"]
        /\ UNCHANGED fetches
     \/ /\ Running(v, uri, "probeMiss")
        /\ fetches' = [fetches EXCEPT ![v] = Bump(fetches[v], uri)]
        /\ cache' = [cache EXCEPT ![v][uri].phase = "fetching"]
        /\ UNCHANGED uris
  /\ UNCHANGED <<store, recs, uid, cancelled, log, answer>>

\* await this.fs.ReadFile(uri) || await ReadUri(uri), line 118
Fetched(fsResult, uriResult) ==
  IF fsResult.kind = "throw" THEN Throw
  ELSE IF Truthy(fsResult) THEN fsResult
  ELSE uriResult

\* lines 119-123: the text the body goes on with
Populate(uri, fetched) ==
  IF Truthy(fetched)
  THEN LET parent == ParentFolderUri(uri) IN
       Text(ReplaceThisFolder(fetched.text, IF Truthy(parent) THEN parent.text ELSE <<>>))
  ELSE fetched

\* lines 118-129: the fetch settles; the body returns null or calls WriteData
RTFetchResume(v, uri, fsResult, uriResult) ==
  /\ Running(v, uri, "fetching")
  /\ LET fetched == Fetched(fsResult, uriResult)
         data == Populate(uri, fetched)
     IN
     IF ~Truthy(data)
     THEN /\ cache' = [cache EXCEPT ![v][uri].phase = "resolved", ![v][uri].fetched = fetched]
          /\ UNCHANGED <<store, recs, uid, log>>
     ELSE /\ WriteDataBegin(uri, data.text, "input-file", <<uri>>, NoFactory, v)
          /\ cache' = [cache EXCEPT ![v][uri] =
                         IF WriteDataStatus(uri, data.text, <<uri>>) = "pending"
                         THEN Promise("writing", createUri(uid, uri), cache[v][uri].shared, fetched)
                         ELSE Promise("rejected", NoKey, cache[v][uri].shared, fetched)]
  /\ UNCHANGED <<cancelled, uris, fetches, answer>>

\* the WriteData call that made `key` has returned its handle
Written(key) == \E i \in 1..Len(log) : log[i].op = "write" /\ log[i].key = key /\ log[i].status = "ok"

\* the uri is not recorded
RTWriteResume_noPush(v, uri) ==
  /\ Running(v, uri, "writing")
  /\ Written(cache[v][uri].key)
  /\ cache' = [cache EXCEPT ![v][uri].phase = "resolved"]
  /\ UNCHANGED <<store, recs, uid, cancelled, uris, fetches, log, answer>>

\* lines 129-132: the body resumes with the handle WriteData returned
RTWriteResume(v, uri) ==
  /\ Running(v, uri, "writing")
  /\ Written(cache[v][uri].key)
  /\ uris' = [uris EXCEPT ![v] = Append(uris[v], uri)]
  /\ cache' = [cache EXCEPT ![v][uri].phase = "resolved"]
  /\ UNCHANGED <<store, recs, uid, cancelled, fetches, log, answer>>

\* ReadThroughDataSource.Enum, lines 139-141
Enum(v) == uris[v]

\* what a Read(uri) call on view v is given once the promise of the slot has
\* resolved, lines 110, 126, 132, 136: the handle of the key, or null
RTResult(v, uri) ==
  IF cache[v][uri].key = NoKey THEN NoHandle
  ELSE DataHandle(cache[v][uri].key, store[cache[v][uri].key])

(* --------------------------- specification ---------------------------- *)
Init ==
  /\ store = EmptyFcn
  /\ recs = <<>>
  /\ uid = 0
  /\ cancelled = FALSE
  /\ uris = [v \in Views |-> <<>>]
  /\ cache = [v \in Views |-> EmptyFcn]
  /\ fetches = [v \in Views |-> EmptyFcn]
  /\ log = <<>>
  /\ answer = NoAnswer

\* a private call of WriteDataInternal with a key the caller chose and a
\* metadata object it filled in, lines 168-180 (the spec's writeExplicit).  The
\* keys callers choose are not of the form createUri makes: WriteData is the
\* only caller that writes under those
ExplicitKeys == {<<"mem://", "k">>, <<"file://", "d", "/", "f">>}

WriteExplicit(uri, in, artifact) ==
  /\ Budget
  /\ LET r == WriteDataInternal(store, recs, cancelled, uri, in.data,
                                [artifactType |-> artifact], in.identity)
     IN /\ store' = r.store
        /\ recs' = r.recs
        /\ log' = Append(log, Call("writeExplicit", uri, NoKey, in.description, in.data, artifact,
                                   in.identity, NoFactory, "client",
                                   IF r.status = "pending" THEN Read(r.store, uri).status
                                   ELSE r.status))
  /\ UNCHANGED <<uid, cancelled, uris, cache, fetches, answer>>

\* the steps of a store with the read-through views V on it
NextOn(V) ==
  \/ \E in \in WriteInputs : WriteData(in, "text")
  \/ \E i \in 1..Len(log) : WriteDataResume(i)
  \/ \E d \in Descriptions, h \in Handles : Forward(d, h)
  \/ Cancel
  \/ \E v \in V, uri \in ExtUris \cup DOMAIN store : RTRead(v, uri)
  \/ \E v \in V, uri \in ExtUris \cup DOMAIN store : RTProbeResume(v, uri)
  \/ \E v \in V, uri \in ExtUris, r1 \in FetchOutcomes, r2 \in FetchOutcomes :
       RTFetchResume(v, uri, r1, r2)
  \/ \E v \in V, uri \in ExtUris : RTWriteResume(v, uri)

\* one store with one read-through view
Next == NextOn({"v1"})

Spec == Init /\ [][Next]_vars

\* one store with two read-through views
NextViews == NextOn(Views)

SpecViews == Init /\ [][NextViews]_vars

\* one store with one read-through view, and callers of WriteDataInternal
NextExplicit ==
  \/ Next
  \/ \E uri \in ExplicitKeys, in \in WriteInputs : WriteExplicit(uri, in, "text")

SpecExplicit == Init /\ [][NextExplicit]_vars

(* --------------------------- QuickDataSource -------------------------- *)
\* new QuickDataSource(handles, skip), lines 77-80
QuickDataSource(handles, skip) == [handles |-> handles, skip |-> skip]

\* this.skip as a condition, lines 83, 87: skip is "true", "false" or undefined
Skips(self) == self.skip = "true"

\* QuickDataSource.Enum, lines 82-84
QuickEnum(self) ==
  IF Skips(self) THEN <<>> ELSE [i \in DOMAIN self.handles |-> self.handles[i].key]

\* the view answers with the last handle of that key
QuickRead_last(self, key) ==
  IF Skips(self) THEN NoHandle
  ELSE LET data == SelectSeq(self.handles, LAMBDA x : x.key = key) IN
       IF data = <<>> THEN NoHandle ELSE data[Len(data)]

\* QuickDataSource.Read, lines 86-92: null is NoHandle
QuickRead(self, key) ==
  IF Skips(self) THEN NoHandle
  ELSE LET data == SelectSeq(self.handles, LAMBDA x : x.key = key) IN
       IF data = <<>> THEN NoHandle ELSE data[1]

\* DataSource.ReadStrict, lines 51-57, on what this.Read resolved to
ReadStrict(result) ==
  IF result = NoHandle THEN [status |-> "Error", handle |-> NoHandle]
  ELSE [status |-> "ok", handle |-> result]

\* the keys and handles fixed views are made of: a handle is a key and a
\* reference to a record, and two handles may have one key
QuickKeys == {createUri(0, <<"a">>), createUri(1, <<"a">>)}
QuickHandles == {DataHandle(k, r) : k \in QuickKeys, r \in 1..2}

RECURSIVE SeqsUpTo(_, _)
SeqsUpTo(S, n) ==
  IF n = 0 THEN {<<>>}
  ELSE SeqsUpTo(S, n - 1) \cup {Append(sq, x) : sq \in {t \in SeqsUpTo(S, n - 1) : Len(t) = n - 1}, x \in S}

\* what a client of a fixed view asked last
QuickAnswer(op, self, key, status, result) ==
  [op |-> op, self |-> self, key |-> key, status |-> status, result |-> result]

\* a fixed view has been constructed over an empty store
InitQuick ==
  /\ store = EmptyFcn
  /\ recs = <<>>
  /\ uid = 0
  /\ cancelled = FALSE
  /\ uris = [v \in Views |-> <<>>]
  /\ cache = [v \in Views |-> EmptyFcn]
  /\ fetches = [v \in Views |-> EmptyFcn]
  /\ log = <<>>
  /\ \E handles \in SeqsUpTo(QuickHandles, MaxHandles), skip \in {"true", "false", Undefined} :
       answer = QuickAnswer("new", QuickDataSource(handles, skip), NoKey, "ok", <<>>)

\* a client calls Enum, Read or ReadStrict, or sets the public field skip
CallQuickEnum ==
  /\ answer' = QuickAnswer("Enum", answer.self, NoKey, "ok", QuickEnum(answer.self))
  /\ UNCHANGED <<store, recs, uid, cancelled, uris, cache, fetches, log>>

CallQuickRead(key) ==
  /\ answer' = QuickAnswer("Read", answer.self, key, "ok", QuickRead(answer.self, key))
  /\ UNCHANGED <<store, recs, uid, cancelled, uris, cache, fetches, log>>

CallQuickReadStrict(key) ==
  /\ LET r == ReadStrict(QuickRead(answer.self, key)) IN
     answer' = QuickAnswer("ReadStrict", answer.self, key, r.status, r.handle)
  /\ UNCHANGED <<store, recs, uid, cancelled, uris, cache, fetches, log>>

SetSkip(skip) ==
  /\ answer.self.skip # skip
  /\ answer' = QuickAnswer("skip", QuickDataSource(answer.self.handles, skip), NoKey, "ok", <<>>)
  /\ UNCHANGED <<store, recs, uid, cancelled, uris, cache, fetches, log>>

NextQuick ==
  \/ CallQuickEnum
  \/ \E key \in QuickKeys \cup ExplicitKeys : CallQuickRead(key)
  \/ \E key \in QuickKeys \cup ExplicitKeys : CallQuickReadStrict(key)
  \/ \E skip \in {"true", "false"} : SetSkip(skip)

SpecQuick == InitQuick /\ [][NextQuick]_vars

(* ----------------------------- source maps ---------------------------- *)
\* Position, MappedPosition and MappingItem of the source-map package, line 8:
\* lines count from 1, columns from 0
Position(line, column) == [line |-> line, column |-> column]

MappedPosition(line, column, name, source) ==
  [line |-> line, column |-> column, name |-> name, source |-> source]

MappingItem(generatedLine, generatedColumn, originalLine, originalColumn, name, source) ==
  [generatedLine |-> generatedLine, generatedColumn |-> generatedColumn,
   originalLine |-> originalLine, originalColumn |-> originalColumn,
   name |-> name, source |-> source]

MaxOf(S) == CHOOSE x \in S : \A y \in S : y <= x

\* each line holds its entries last first
EachMappingByLine_unshift(mappings) ==
  LET lines == {mappings[i].generatedLine : i \in DOMAIN mappings}
      length == IF lines = {} THEN 0 ELSE MaxOf(lines) + 1
      onLine(line) == SelectSeq(mappings, LAMBDA mapping : mapping.generatedLine = line)
  IN [line \in 0..(length - 1) |->
        [n \in DOMAIN onLine(line) |-> onLine(line)[Len(onLine(line)) + 1 - n]]]

\* the body of the sourceMapEachMappingByLine view, lines 206-220, on the entries
\* eachMapping delivers: an array indexed by generated line, from 0
EachMappingByLine(mappings) ==
  LET lines == {mappings[i].generatedLine : i \in DOMAIN mappings}
      length == IF lines = {} THEN 0 ELSE MaxOf(lines) + 1
  IN [line \in 0..(length - 1) |->
        SelectSeq(mappings, LAMBDA mapping : mapping.generatedLine = line)]

\* sameLineResults.reduce((c, m) => Math.max(c, m.generatedColumn), 0), line 387
MaxColumn(sameLineResults) ==
  MaxOf({0} \cup {sameLineResults[i].generatedColumn : i \in DOMAIN sameLineResults})

\* the column of the entry is handed on as it is
HandleBlame_noDelta(byLine, position) ==
  LET onLine == IF position.line \in DOMAIN byLine THEN byLine[position.line] ELSE <<>>
      sameLineResults ==
        SelectSeq(onLine, LAMBDA mapping : mapping.generatedColumn <= position.column)
      maxColumn == MaxColumn(sameLineResults)
      hits == SelectSeq(sameLineResults, LAMBDA m : m.generatedColumn = maxColumn)
  IN [i \in DOMAIN hits |->
        MappedPosition(hits[i].originalLine, hits[i].originalColumn, hits[i].name,
                       hits[i].source)]

\* DataHandle.Blame, lines 383-397, on the value of the record's
\* sourceMapEachMappingByLine view
HandleBlame(byLine, position) ==
  LET onLine == IF position.line \in DOMAIN byLine THEN byLine[position.line] ELSE <<>>
      sameLineResults ==
        SelectSeq(onLine, LAMBDA mapping : mapping.generatedColumn <= position.column)
      maxColumn == MaxColumn(sameLineResults)
      columnDelta == position.column - maxColumn
      hits == SelectSeq(sameLineResults, LAMBDA m : m.generatedColumn = maxColumn)
  IN [i \in DOMAIN hits |->
        MappedPosition(hits[i].originalLine, hits[i].originalColumn + columnDelta,
                       hits[i].name, hits[i].source)]

\* the entries of the mapping tables DataHandle.Blame is tried on
ResolveItems ==
  {MappingItem(gl, gc, 1, oc, <<"n">>, source) :
     gl \in {1, 2}, gc \in {0, 2}, oc \in {0, 3}, source \in QuickKeys}

\* the positions asked for
ResolvePositions == {Position(line, column) : line \in 0..3, column \in {0, 1, 3}}

\* a record has been given the entries of its mapping table
InitResolve ==
  /\ store = EmptyFcn
  /\ recs = <<>>
  /\ uid = 0
  /\ cancelled = FALSE
  /\ uris = [v \in Views |-> <<>>]
  /\ cache = [v \in Views |-> EmptyFcn]
  /\ fetches = [v \in Views |-> EmptyFcn]
  /\ log = <<>>
  /\ \E mappings \in SeqsUpTo(ResolveItems, MaxEntries) :
       answer = [op |-> "new", mappings |-> mappings, position |-> Position(0, 0),
                 result |-> <<>>]

\* a client calls Blame on a handle of the record
CallHandleBlame(position) ==
  /\ answer' = [op |-> "Blame", mappings |-> answer.mappings, position |-> position,
                result |-> HandleBlame(EachMappingByLine(answer.mappings), position)]
  /\ UNCHANGED <<store, recs, uid, cancelled, uris, cache, fetches, log>>

NextResolve == \E position \in ResolvePositions : CallHandleBlame(position)

SpecResolve == InitResolve /\ [][NextResolve]_vars

(* ---------------------------- derived views --------------------------- *)
\* what an evaluation leaves: the heap, "ok" or the error thrown, and the value
Outcome(rs, status, value) == [recs |-> rs, status |-> status, value |-> value]

\* the evaluation threw: the error goes on to the caller, with the heap
Thrown(outcome, blank) == Outcome(outcome.recs, outcome.status, blank)

\* the metadata object of record r has been filled in (lines 188-224 have run)
Initialized(rs, r) == "sourceMap" \in DOMAIN rs[r].metadata

\* Lazy.Value of ../lazy on the view `name` of record r, where outcome is what
\* its factory leaves: the factory runs when the view was never computed, and
\* what it yielded is kept for every later access
LazyValue(rs, r, name, outcome) ==
  IF rs[r].metadata[name].status = "unset"
  THEN Outcome([outcome.recs EXCEPT ![r].metadata[name] =
                  [status |-> outcome.status, value |-> outcome.value,
                   runs |-> rs[r].metadata[name].runs + 1,
                   reads |-> rs[r].metadata[name].reads + 1]],
               outcome.status, outcome.value)
  ELSE Outcome([rs EXCEPT ![r].metadata[name].reads = @ + 1],
               rs[r].metadata[name].status, rs[r].metadata[name].value)

\* sourceMapFactory(result), line 193
CallFactory(sourceMapFactory, self) ==
  RawSourceMap(self.key,
               [i \in DOMAIN sourceMapFactory.mappings |->
                  [sourceMapFactory.mappings[i] EXCEPT
                     !.source = IF @ = Self THEN self.key ELSE @]])

\* no key is checked
Validate_unchecked(st, rs, sourceMap) == Outcome(rs, "ok", sourceMap)

\* lines 195-203: every source of the map, and its file, is a key of the store
Validate(st, rs, sourceMap) ==
  IF \E inputFile \in sourceMap.sources \cup {sourceMap.file} : ~Has(st, inputFile)
  THEN Outcome(rs, "DanglingMappingReference", EmptySourceMap)
  ELSE Outcome(rs, "ok", sourceMap)

\* the factory of metadata.sourceMap, lines 189-204
SourceMapFactory(st, rs, r, scope) ==
  IF ~scope.sourceMapFactory.given THEN Outcome(rs, "ok", EmptySourceMap)
  ELSE Validate(st, rs, CallFactory(scope.sourceMapFactory, DataHandle(scope.uri, st[scope.uri])))

\* metadata.sourceMap.Value, lines 207, 277
SourceMapValue(st, rs, r) ==
  LazyValue(rs, r, "sourceMap", SourceMapFactory(st, rs, r, rs[r].metadata.scope))

\* new SourceMapConsumer(sourceMap).eachMapping, lines 207-213, 277-278: the
\* entries of the map in generated order
EachMapping(sourceMap) == sourceMap.mappings

\* lines 206-220, given what metadata.sourceMap.Value left
ByLineOf(sourceMap) ==
  IF sourceMap.status # "ok" THEN Thrown(sourceMap, EmptyFcn)
  ELSE Outcome(sourceMap.recs, "ok", EachMappingByLine(EachMapping(sourceMap.value)))

\* the factory of metadata.sourceMapEachMappingByLine, lines 205-221
ByLineFactory(st, rs, r) == ByLineOf(SourceMapValue(st, rs, r))

\* metadata.sourceMapEachMappingByLine.Value, line 385
ByLineValue(st, rs, r) ==
  LazyValue(rs, r, "sourceMapEachMappingByLine", ByLineFactory(st, rs, r))

\* the position is blamed on no one
BlameWith_none(byLine, position) == Outcome(byLine.recs, byLine.status, <<>>)

\* lines 385-396, given what the view left
BlameWith(byLine, position) ==
  IF byLine.status # "ok" THEN Thrown(byLine, <<>>)
  ELSE Outcome(byLine.recs, "ok", HandleBlame(byLine.value, position))

\* DataHandle.Blame, lines 383-397, on a handle of record r: reading the view of
\* a metadata object that is still {} throws TypeError
BlameOf(st, rs, r, position) ==
  IF ~Initialized(rs, r) THEN Outcome(rs, "TypeError", <<>>)
  ELSE BlameWith(ByLineValue(st, rs, r), position)

(* -------------------------------- blame ------------------------------- *)
\* new BlameTree(node, blaming) of ../source-map/blaming
BlameTree(node, blaming) == [node |-> node, blaming |-> blaming]
NoTree == BlameTree(MappedPosition(0, 0, <<>>, NoKey), <<>>)

\* the node once its children are made
NodeOf(position, blaming) ==
  IF blaming.status # "ok" THEN Thrown(blaming, NoTree)
  ELSE Outcome(blaming.recs, "ok", BlameTree(position, blaming.value))

\* the trees made so far and those made after them
Joined(first, rest) ==
  IF rest.status # "ok" THEN Thrown(rest, <<>>)
  ELSE Outcome(rest.recs, "ok", <<first.value>> \o rest.value)

\* BlameTree.Create of ../source-map/blaming: a node for the position and, for
\* each position DataHandle.Blame resolves it to, a child tree, in that order;
\* there is no guard against a position that comes back, and the engine throws
\* RangeError when the recursion is StackLimit deep
RECURSIVE Create(_, _, _, _), CreateFrom(_, _, _, _), CreateEach(_, _, _, _, _),
          CreateRest(_, _, _, _, _)
Create(st, rs, position, depth) ==
  IF depth > StackLimit THEN Outcome(rs, "RangeError", NoTree)
  ELSE IF ~Has(st, position.source) THEN Outcome(rs, "NotFound", NoTree)
  ELSE CreateFrom(st, position, depth, BlameOf(st, rs, st[position.source], position))

CreateFrom(st, position, depth, blames) ==
  IF blames.status # "ok" THEN Thrown(blames, NoTree)
  ELSE NodeOf(position, CreateEach(st, blames.recs, blames.value, 1, depth + 1))

CreateEach(st, rs, blames, i, depth) ==
  IF i > Len(blames) THEN Outcome(rs, "ok", <<>>)
  ELSE CreateRest(st, blames, i, depth, Create(st, rs, blames[i], depth))

CreateRest(st, blames, i, depth, first) ==
  IF first.status # "ok" THEN Thrown(first, <<>>)
  ELSE Joined(first, CreateEach(st, first.recs, blames, i + 1, depth))

\* CompilePosition of ../source-map/source-map, line 262, on a position given
\* by line and column: that line and column
CompilePosition(position, data) == Position(position.line, position.column)

\* the name of the root node, line 267
BlameRoot == <<"blameRoot">>

\* lines 263-268
RootOf(absoluteUri, resolvedPosition) ==
  MappedPosition(resolvedPosition.line, resolvedPosition.column, BlameRoot, absoluteUri)

\* DataStore.Blame, lines 260-269 (ReadStrictSync, lines 243-249)
Blame(st, rs, absoluteUri, position) ==
  IF ~Has(st, absoluteUri) THEN Outcome(rs, "NotFound", NoTree)
  ELSE Create(st, rs,
              RootOf(absoluteUri,
                     CompilePosition(position, DataHandle(absoluteUri, st[absoluteUri]))),
              1)

\* BlameTree.BlameLeafs of ../source-map/blaming: the nodes without children,
\* depth first, the children of a node from left to right
RECURSIVE BlameLeafs(_), LeafsOfEach(_, _)
BlameLeafs(tree) ==
  IF tree.blaming = <<>> THEN <<tree.node>> ELSE LeafsOfEach(tree.blaming, 1)

LeafsOfEach(trees, i) ==
  IF i > Len(trees) THEN <<>> ELSE BlameLeafs(trees[i]) \o LeafsOfEach(trees, i + 1)

(* ------------------------------- flatten ------------------------------ *)
\* the character a percent escape stands for
UnescapeOf(hex) ==
  CASE hex = <<"2", "F">> -> "/"
    [] hex = <<"2", "4">> -> "$"
    [] hex = <<"3", "F">> -> "?"
    [] hex = <<"2", "5">> -> "%"
    [] hex = <<"3", "A">> -> ":"

\* decodeURIComponent, line 371
RECURSIVE decodeURIComponent(_)
decodeURIComponent(s) ==
  IF s = <<>> THEN <<>>
  ELSE IF s[1] = "%" /\ Len(s) >= 3
       THEN <<UnescapeOf(SubSeq(s, 2, 3))>> \o decodeURIComponent(SubSeq(s, 4, Len(s)))
       ELSE <<s[1]>> \o decodeURIComponent(Tail(s))

\* the key is handed on as the name
Description_key(key) == key

\* DataHandle.Description, lines 370-372: key.split('?').reverse()[0], decoded
Description(key) ==
  LET marks == {i \in 1..Len(key) : key[i] = "?"} IN
  decodeURIComponent(IF marks = {} THEN key ELSE SubSeq(key, MaxOf(marks) + 1, Len(key)))

\* a Mapping of ../source-map/source-map, lines 286-291
Mapping(name, source, generated, original) ==
  [name |-> name, source |-> source, generated |-> generated, original |-> original]

\* Compile of ../source-map/source-map with SourceMapGenerator.addMapping,
\* line 295: one entry of the output table per mapping, in their order
Compile(mappings) ==
  [i \in DOMAIN mappings |->
     MappingItem(mappings[i].generated.line, mappings[i].generated.column,
                 mappings[i].original.line, mappings[i].original.column,
                 mappings[i].name, mappings[i].source)]

\* lines 285-292: a mapping for each leaf of the tree; ReadStrictSync throws on
\* a source that is not in the store
MappingsOf(st, rs, node, inputPositions) ==
  IF \E j \in DOMAIN inputPositions : ~Has(st, inputPositions[j].source)
  THEN Outcome(rs, "NotFound", <<>>)
  ELSE Outcome(rs, "ok",
               [j \in DOMAIN inputPositions |->
                  Mapping(inputPositions[j].name, Description(inputPositions[j].source),
                          node, inputPositions[j])])

\* the mappings collected so far and those collected after them
Collected(first, rest) ==
  IF rest.status # "ok" THEN Thrown(rest, <<>>)
  ELSE Outcome(rest.recs, "ok", first.value \o rest.value)

\* lines 282-293: the mappings collected for targetPositions[i] and those after it
RECURSIVE CollectBlame(_, _, _, _, _), CollectFrom(_, _, _, _, _), CollectRest(_, _, _, _, _)
CollectBlame(st, rs, absoluteUri, targetPositions, i) ==
  IF i > Len(targetPositions) THEN Outcome(rs, "ok", <<>>)
  ELSE CollectFrom(st, absoluteUri, targetPositions, i,
                   Blame(st, rs, absoluteUri, targetPositions[i]))

CollectFrom(st, absoluteUri, targetPositions, i, blameTree) ==
  IF blameTree.status # "ok" THEN Thrown(blameTree, <<>>)
  ELSE CollectRest(st, absoluteUri, targetPositions, i,
                   MappingsOf(st, blameTree.recs, blameTree.value.node,
                              BlameLeafs(blameTree.value)))

CollectRest(st, absoluteUri, targetPositions, i, mappings) ==
  IF mappings.status # "ok" THEN mappings
  ELSE Collected(mappings, CollectBlame(st, mappings.recs, absoluteUri, targetPositions, i + 1))

\* lines 278: the generated position of each entry
TargetPositions(mappings) ==
  [i \in DOMAIN mappings |-> Position(mappings[i].generatedLine, mappings[i].generatedColumn)]

\* lines 294-296
Compiled(absoluteUri, mappings) ==
  IF mappings.status # "ok" THEN Thrown(mappings, EmptySourceMap)
  ELSE Outcome(mappings.recs, "ok", RawSourceMap(absoluteUri, Compile(mappings.value)))

\* lines 277-296, given what metadata.sourceMap.Value left
FlattenWith(st, absoluteUri, sourceMap) ==
  IF sourceMap.status # "ok" THEN Thrown(sourceMap, EmptySourceMap)
  ELSE Compiled(absoluteUri,
                CollectBlame(st, sourceMap.recs, absoluteUri,
                             TargetPositions(EachMapping(sourceMap.value)), 1))

\* DataStore.CreateInputSourceMapFor, lines 271-297
CreateInputSourceMapFor(st, rs, absoluteUri) ==
  IF ~Has(st, absoluteUri) THEN Outcome(rs, "NotFound", EmptySourceMap)
  ELSE FlattenWith(st, absoluteUri, SourceMapValue(st, rs, st[absoluteUri]))

\* metadata.inputSourceMap.Value, lines 71, 222
InputSourceMapValue(st, rs, r) ==
  LazyValue(rs, r, "inputSourceMap",
            CreateInputSourceMapFor(st, rs, rs[r].metadata.scope.uri))

\* parseAst of ../yaml, line 223: the content here is one plain scalar
parseAst(data) == <<"scalar", data>>

\* LineIndices of ../parsing/text-utility, line 224: the offsets at which the
\* lines of the content start
LineIndices(data) ==
  <<0>> \o [n \in 1..Cardinality({i \in DOMAIN data : data[i] = "\n"}) |->
             CHOOSE i \in DOMAIN data :
               data[i] = "\n" /\ Cardinality({j \in 1..i : data[j] = "\n"}) = n]

\* handle.metadata.<name>.Value on a handle of record r
ViewValue(st, rs, r, name) ==
  IF ~Initialized(rs, r) THEN Outcome(rs, "TypeError", <<>>)
  ELSE CASE name = "sourceMap" -> SourceMapValue(st, rs, r)
         [] name = "sourceMapEachMappingByLine" -> ByLineValue(st, rs, r)
         [] name = "inputSourceMap" -> InputSourceMapValue(st, rs, r)
         [] name = "yamlAst" -> LazyValue(rs, r, "yamlAst", Outcome(rs, "ok", parseAst(rs[r].data)))
         [] name = "lineIndices" ->
              LazyValue(rs, r, "lineIndices", Outcome(rs, "ok", LineIndices(rs[r].data)))

(* --------------------------- stages and blame ------------------------- *)
\* what a stage writes
StageInput(n) ==
  [description |-> <<"s", "/", ToString(n)>>, data |-> <<"y">>,
   identity |-> << <<"file://", "i">> >>]

\* a key that is never in the store
AbsentKey == <<"mem://", "x">>

\* the tables the factories of the stages yield: one entry at line 1, column 5,
\* or two entries that tie there
OneHop(source, originalColumn) ==
  Factory(<<MappingItem(1, 5, 1, originalColumn, <<"n1">>, source)>>)

FanOut(source1, source2) ==
  Factory(<<MappingItem(1, 5, 1, 5, <<"n1">>, source1),
            MappingItem(1, 5, 1, 5, <<"n2">>, source2)>>)

\* the factories a stage that knows the keys K writes with: none, an entry that
\* names a key it knows or its own, or two entries that name keys it knows
BlameFactories(K) ==
  {OneHop(source, oc) : source \in K \cup {Self}, oc \in {0, 5}}
    \cup {FanOut(s1, s2) : s1 \in K, s2 \in K}
    \cup {NoFactory}

\* none, an entry that names a key it knows, or one that names a key that is not
\* in the store
ViewFactories(K) == {OneHop(source, 5) : source \in K \cup {AbsentKey}} \cup {NoFactory}

\* the positions blame is asked for
BlamePositions == {Position(1, 0), Position(1, 5), Position(1, 7)}

\* what a client's synchronous call returned
Answer(op, key, position, view, status, tree) ==
  [op |-> op, calls |-> answer.calls + 1, key |-> key, position |-> position,
   view |-> view, status |-> status, tree |-> tree]

\* the call returns or throws, and leaves the views it computed in the heap
Returns(op, key, position, view, outcome, tree) ==
  /\ recs' = outcome.recs
  /\ answer' = Answer(op, key, position, view, outcome.status, tree)

\* a client calls DataStore.Blame, lines 260-269
CallBlame(absoluteUri, position) ==
  /\ answer.calls < MaxBlames
  /\ Returns("Blame", absoluteUri, position, "", Blame(store, recs, absoluteUri, position),
             Blame(store, recs, absoluteUri, position).value)
  /\ UNCHANGED <<store, uid, cancelled, uris, cache, fetches, log>>

\* a client reads a derived view through a handle: handle.metadata.<name>.Value
CallValue(handle, name, bound) ==
  /\ answer.calls < bound
  /\ Returns("Value", handle.key, Position(0, 0), name,
             ViewValue(store, recs, handle.read, name), NoTree)
  /\ UNCHANGED <<store, uid, cancelled, uris, cache, fetches, log>>

\* one store, stages that write with mapping tables, and clients that ask for
\* blame and for flattened tables
NextBlame ==
  \/ \E f \in BlameFactories(DOMAIN store) : WriteDataWithSourceMap(StageInput(uid), "text", f)
  \/ \E i \in 1..Len(log) : WriteDataResume(i)
  \/ \E key \in DOMAIN store, position \in BlamePositions : CallBlame(key, position)
  \/ \E h \in Handles : CallValue(h, "inputSourceMap", MaxBlames)

SpecBlame == Init /\ [][NextBlame]_vars

\* one store, stages that write with mapping tables and forward, and clients
\* that read the derived views
NextViewValues ==
  \/ \E f \in ViewFactories(DOMAIN store) : WriteDataWithSourceMap(StageInput(uid), "text", f)
  \/ \E i \in 1..Len(log) : WriteDataResume(i)
  \/ \E d \in Descriptions, h \in Handles : Forward(d, h)
  \/ \E h \in Handles, name \in ViewNames : CallValue(h, name, MaxCalls)

SpecViewValues == Init /\ [][NextViewValues]_vars

(* ---------------------- cancellation and reads ------------------------ *)
\* the reads of the views that have started and whose fetch has not returned
InFlight == {<<v, uri>> \in Views \X ExtUris : Cached(cache[v], uri) /\ BeforeFetched(cache[v][uri])}

\* the owner of the CancellationToken requests cancellation; the reads in flight
\* at that moment are noted
CancelInFlight ==
  /\ ~cancelled
  /\ cancelled' = TRUE
  /\ answer' = [op |-> "Cancel", calls |-> 0, inFlight |-> InFlight]
  /\ UNCHANGED <<store, recs, uid, uris, cache, fetches, log>>

\* one store with one read-through view, clients that write, and a cancellation
NextInFlight ==
  \/ \E in \in WriteInputs : WriteData(in, "text")
  \/ \E i \in 1..Len(log) : WriteDataResume(i)
  \/ CancelInFlight
  \/ \E uri \in ExtUris \cup DOMAIN store : RTRead("v1", uri)
  \/ \E uri \in ExtUris \cup DOMAIN store : RTProbeResume("v1", uri)
  \/ \E uri \in ExtUris, r1 \in FetchOutcomes, r2 \in FetchOutcomes :
       RTFetchResume("v1", uri, r1, r2)
  \/ \E uri \in ExtUris : RTWriteResume("v1", uri)

SpecInFlight == Init /\ [][NextInFlight]_vars

(* -------------------------------- dump -------------------------------- *)
\* the handles of the fixed views that are dumped
MaxDumped == 2

\* the folders dumps are written to
TargetDirs == {<<"file://", "out">>, <<"file://", "out", "/">>}

\* EnsureIsFolderUri of @microsoft.azure/uri: the uri, ending with a slash
EnsureIsFolderUri(uri) ==
  IF uri # <<>> /\ uri[Len(uri)] = "/" THEN uri ELSE uri \o <<"/">>

\* a token without its colon
WithoutColon(token) ==
  CASE token = "mem://" -> "mem//"
    [] token = "file://" -> "file//"
    [] OTHER -> token

\* key.replace(':', ''), line 68: the first colon of the key is removed
RECURSIVE ReplaceColon(_)
ReplaceColon(key) ==
  IF key = <<>> THEN <<>>
  ELSE IF WithoutColon(Head(key)) # Head(key) THEN <<WithoutColon(Head(key))>> \o Tail(key)
  ELSE <<Head(key)>> \o ReplaceColon(Tail(key))

\* targetFileUri, lines 66-68
TargetFileUri(targetDirUri, key) == ResolveUri(targetDirUri, ReplaceColon(key))

\* JSON.stringify(value, null, 2), lines 70-71: the text of the value
Stringify(value) == <<"json", value>>

\* WriteString of @microsoft.azure/uri: one file written
WriteString(uri, data) == [uri |-> uri, data |-> data]

\* a call of Dump: the view, the folder, the array Enum gave, the index of the
\* for loop, the await the call is at, what ReadStrict gave, and the files
\* written so far
DumpCall(self, targetDirUri, keys, i, at, dataHandle, written, status) ==
  [op |-> "Dump", calls |-> 0, self |-> self, targetDirUri |-> targetDirUri, keys |-> keys,
   i |-> i, at |-> at, dataHandle |-> dataHandle, written |-> written, status |-> status]

\* the call is suspended at that await
DumpAt(at) == answer.op = "Dump" /\ answer.status = "running" /\ answer.at = at

\* the files are written in the other order
DumpFile_mapFirst(written, targetFileUri, data) ==
  <<WriteString(targetFileUri, data)>> \o written

\* await WriteString(...), lines 69-71: one more file
DumpFile(written, targetFileUri, data) ==
  Append(written, WriteString(targetFileUri, data))

\* DataSource.Dump on a fixed view up to its first await, lines 60-61
Dump(self, targetDirUri) ==
  /\ answer.op = "none"
  /\ answer' = DumpCall(self, EnsureIsFolderUri(targetDirUri), QuickEnum(self), 0, "Enum",
                        NoHandle, <<>>, "running")
  /\ UNCHANGED <<store, recs, uid, cancelled, uris, cache, fetches, log>>

\* the head of the for loop, line 62, after await this.Enum() or after the last
\* WriteString of the key before: the call returns or calls ReadStrict, line 63
DumpNext ==
  /\ DumpAt("Enum") \/ DumpAt("inputSourceMap")
  /\ answer' =
       IF answer.i + 1 > Len(answer.keys)
       THEN [answer EXCEPT !.status = "ok", !.at = "return"]
       ELSE [answer EXCEPT !.i = answer.i + 1, !.at = "ReadStrict",
                           !.dataHandle = QuickRead(answer.self, answer.keys[answer.i + 1])]
  /\ UNCHANGED <<store, recs, uid, cancelled, uris, cache, fetches, log>>

\* after await this.ReadStrict(key), lines 63-69: the content is written
DumpData ==
  /\ DumpAt("ReadStrict")
  /\ answer' =
       IF ReadStrict(answer.dataHandle).status # "ok"
       THEN [answer EXCEPT !.status = ReadStrict(answer.dataHandle).status, !.at = "throw"]
       ELSE [answer EXCEPT !.at = "data",
               !.written = DumpFile(answer.written,
                                    TargetFileUri(answer.targetDirUri, answer.keys[answer.i]),
                                    ReadData(recs, answer.dataHandle))]
  /\ UNCHANGED <<store, recs, uid, cancelled, uris, cache, fetches, log>>

\* what Dump does with metadata.<name>.Value: the file is written, or the call
\* throws what the view threw
DumpValue(name, suffix, outcome) ==
  /\ recs' = outcome.recs
  /\ answer' =
       IF outcome.status # "ok"
       THEN [answer EXCEPT !.status = outcome.status, !.at = "throw"]
       ELSE [answer EXCEPT !.at = name,
               !.written = DumpFile(answer.written,
                                    TargetFileUri(answer.targetDirUri, answer.keys[answer.i])
                                      \o <<suffix>>,
                                    Stringify(outcome.value))]

\* after await WriteString(targetFileUri, data), line 70
DumpSourceMap ==
  /\ DumpAt("data")
  /\ DumpValue("sourceMap", ".map", ViewValue(store, recs, answer.dataHandle.read, "sourceMap"))
  /\ UNCHANGED <<store, uid, cancelled, uris, cache, fetches, log>>

\* after await WriteString(targetFileUri + '.map', ...), line 71
DumpInputSourceMap ==
  /\ DumpAt("sourceMap")
  /\ DumpValue("inputSourceMap", ".input.map",
               ViewValue(store, recs, answer.dataHandle.read, "inputSourceMap"))
  /\ UNCHANGED <<store, uid, cancelled, uris, cache, fetches, log>>

\* one store, stages that write with mapping tables, and one dump of a fixed view
\* of handles of the store
NextDump ==
  \/ \E f \in ViewFactories(DOMAIN store) : WriteDataWithSourceMap(StageInput(uid), "text", f)
  \/ \E i \in 1..Len(log) : WriteDataResume(i)
  \/ \E handles \in SeqsUpTo(Handles, MaxDumped), skip \in {"true", "false"},
        targetDirUri \in TargetDirs :
       Dump(QuickDataSource(handles, skip), targetDirUri)
  \/ DumpNext
  \/ DumpData
  \/ DumpSourceMap
  \/ DumpInputSourceMap

SpecDump == Init /\ [][NextDump]_vars

(* ------------------------------- claims ------------------------------- *)
Last(sq) == sq[Len(sq)]

\* the step is a write or forward call
Appended == Len(log') = Len(log) + 1

\* the call put a key in the store
Occupies(e) == e.status \in {"pending", "ok"}

\* the WriteData calls view v made for uri
RTWrites(v, uri) ==
  {i \in 1..Len(log) : log[i].op = "write" /\ log[i].owner = v /\ log[i].description = uri}

\* C1. Write-once: across every step, each key of the store stays in the store
\* and keeps its content and its identity.
WriteOnce ==
  [][\A k \in DOMAIN store :
       /\ Has(store', k)
       /\ recs'[store'[k]].data = recs[store[k]].data
       /\ recs'[store'[k]].identity = recs[store[k]].identity]_vars

\* a key written earlier is still there with its content after a later call put
\* another content under another key
WriteOnceWitness ==
  \E i, j \in 1..Len(log) :
    /\ i < j
    /\ Occupies(log[i]) /\ Occupies(log[j])
    /\ log[i].op = "write"
    /\ recs[store[log[i].key]].data = log[i].data
    /\ recs[store[log[j].key]].data # log[i].data

\* the first call that put a record under key k
FirstAt(k) == log[CHOOSE i \in 1..Len(log) :
                    /\ log[i].key = k /\ Occupies(log[i])
                    /\ \A j \in 1..(i - 1) : ~(log[j].key = k /\ Occupies(log[j]))]

\* the step is an explicit write to a key that holds a record
ExplicitRewrite ==
  /\ Appended
  /\ Last(log').op = "writeExplicit"
  /\ Has(store, Last(log').key)

\* the store, and the record under the key of the call, are as the first write
\* to that key left them
FirstWriteKept ==
  /\ store' = store
  /\ recs' = recs
  /\ FirstAt(Last(log').key).op # "forward" =>
       /\ recs'[store'[Last(log').key]].data = FirstAt(Last(log').key).data
       /\ recs'[store'[Last(log').key]].identity = FirstAt(Last(log').key).identity

\* C2, as claimed. An explicit write to a key that holds a record fails with
\* WriteConflict and leaves the key with the content and identity of the first write.
ExplicitRewriteConflicts ==
  [][ExplicitRewrite => (Last(log').status = "WriteConflict" /\ FirstWriteKept)]_vars

\* C2, amended. An explicit write to a key that holds a record fails, with
\* Cancelled when cancellation has been requested and with WriteConflict
\* otherwise, and leaves the key with the content and identity of the first write.
ExplicitRewriteFails ==
  [][ExplicitRewrite =>
       /\ Last(log').status = (IF cancelled THEN "Cancelled" ELSE "WriteConflict")
       /\ FirstWriteKept]_vars

\* a second explicit write to a key has failed with WriteConflict and the key
\* still has the content of the first
ExplicitRewriteWitness ==
  /\ log # <<>>
  /\ Last(log).op = "writeExplicit"
  /\ Last(log).status = "WriteConflict"
  /\ FirstAt(Last(log).key).op = "writeExplicit"
  /\ FirstAt(Last(log).key).data # Last(log).data
  /\ recs[store[Last(log).key]].data = FirstAt(Last(log).key).data

\* the counter embedded in a key createUri made
UidOf(key) == CHOOSE n \in 0..(MaxOps + 1) : ToString(n) = key[2]

\* C3. Keys are never reused: the key of each write or forward call differs from
\* the key of every earlier call, and its counter is larger.
KeysNeverReused ==
  \A i, j \in 1..Len(log) :
    i < j => /\ log[i].key # log[j].key
             /\ UidOf(log[i].key) < UidOf(log[j].key)

\* two calls with the same description, a write and a forward among them, got
\* different keys
KeysNeverReusedWitness ==
  \E i, j \in 1..Len(log) :
    /\ i < j
    /\ log[i].description = log[j].description
    /\ log[i].op # log[j].op
    /\ log[i].key # log[j].key

\* C4. Round trip: once WriteData has returned a handle, Read of its key succeeds
\* and yields the content and the identity that were written.
RoundTrip ==
  \A i \in 1..Len(log) :
    (log[i].op = "write" /\ log[i].status = "ok") =>
      /\ Read(store, log[i].key).status = "ok"
      /\ Read(store, log[i].key).handle.key = log[i].key
      /\ ReadData(recs, Read(store, log[i].key).handle) = log[i].data
      /\ IdentityOf(recs, Read(store, log[i].key).handle) = log[i].identity

\* a write has returned, other calls have followed it, cancellation included, and
\* its key reads back what was written
RoundTripWitness ==
  /\ cancelled
  /\ \E i \in 1..Len(log) :
       /\ i < Len(log)
       /\ log[i].op = "write" /\ log[i].status = "ok" /\ log[i].owner = "client"
       /\ ReadData(recs, Read(store, log[i].key).handle) = log[i].data

\* C5. Forwarding: a forward call puts a key that was not in the store on the
\* very record of its source key, so both keys read the same content, identity,
\* tag and views, and it changes no other key and no record.
ForwardAliases ==
  [][(Appended /\ Last(log').op = "forward") =>
       LET A == Last(log').src
           B == Last(log').key
       IN /\ ~Has(store, B)
          /\ Last(log').status = "ok"
          /\ Read(store', B).handle.read = Read(store, A).handle.read
          /\ recs'[Read(store', B).handle.read] = recs[Read(store, A).handle.read]
          /\ \A k \in DOMAIN store : store'[k] = store[k]
          /\ DOMAIN store' = DOMAIN store \cup {B}
          /\ recs' = recs]_vars

\* a forwarded key and its source are on one record, beside another record
ForwardAliasesWitness ==
  /\ Len(recs) > 1
  /\ \E i \in 1..Len(log) :
       /\ log[i].op = "forward"
       /\ log[i].key # log[i].src
       /\ store[log[i].key] = store[log[i].src]

\* C6, as claimed. A write after cancellation was requested fails with Cancelled
\* and leaves the store's map and the key counter as they were.
CancelledWriteNoMutation ==
  [][(cancelled /\ Appended /\ Last(log').op = "write") =>
       /\ Last(log').status = "Cancelled"
       /\ store' = store
       /\ uid' = uid]_vars

\* C7, as claimed. Once cancellation has been requested every write and forward
\* fails with Cancelled and the set of keys of the store no longer changes.
CancelFreezesKeys ==
  [][cancelled =>
       /\ DOMAIN store' = DOMAIN store
       /\ Appended => Last(log').status = "Cancelled"]_vars

\* C8, as claimed. When Read calls shared the promise of a uri before its fetch
\* settled, line 118 ran once, one record was written for the uri and the calls
\* got a handle.
ReadThroughDedupAlways ==
  \A v \in Views : \A uri \in DOMAIN cache[v] :
    (cache[v][uri].shared /\ Settled(cache[v][uri]) /\ Count(fetches[v], uri) >= 1) =>
      /\ Count(fetches[v], uri) = 1
      /\ Cardinality(RTWrites(v, uri)) = 1
      /\ cache[v][uri].key # NoKey

\* C8, amended. For the Read calls on one uri of one view: line 118 runs at most
\* once and at most one record is written, whatever the number of calls; a
\* promise that has begun sits in its slot; a promise that holds a key after a
\* fetch holds the key of the one record written; and when the fetch yielded
\* text that is not empty after the substitution, the promise resolves only with
\* that key (when the write is cancelled it is rejected, when the fetch yielded
\* nothing it resolves to null and no record is written).
ReadThroughDedup ==
  \A v \in Views :
    /\ \A uri \in DOMAIN fetches[v] : uri \in DOMAIN cache[v]
    /\ \A uri \in DOMAIN cache[v] :
         LET p == cache[v][uri]
             n == Count(fetches[v], uri)
             w == RTWrites(v, uri)
         IN /\ n <= 1
            /\ Cardinality(w) <= 1
            /\ (p.key # NoKey /\ n = 1) =>
                 /\ Cardinality({i \in w : Occupies(log[i])}) = 1
                 /\ \A i \in w : log[i].key = p.key
                 /\ Has(store, p.key)
            /\ (p.phase = "resolved" /\ n = 1) =>
                 (p.key # NoKey <=> Truthy(Populate(uri, p.fetched)))
            /\ (p.phase = "resolved" /\ p.key = NoKey) => w = {}
            /\ p.phase = "rejected" => \A i \in w : log[i].status = "Cancelled"

\* two Read calls shared a promise before its fetch settled, and it resolved
\* with the key of the record written after the one fetch
ReadThroughDedupWitness ==
  \E v \in Views : \E uri \in DOMAIN cache[v] :
    /\ cache[v][uri].shared
    /\ cache[v][uri].phase = "resolved"
    /\ cache[v][uri].key # NoKey
    /\ Count(fetches[v], uri) = 1

\* a read-through view has written uri into the store and got its handle
Materialized(uri) ==
  \E i \in 1..Len(log) :
    log[i].op = "write" /\ log[i].owner \in Views /\ log[i].description = uri /\ log[i].status = "ok"

\* C9, as claimed. A Read that starts a promise for a uri already materialized in
\* the store finds it with its probe: no fetch and no write follow.
ProbeFindsMaterialized ==
  [][\A v \in Views : \A uri \in ExtUris :
       (uri \notin DOMAIN cache[v] /\ uri \in DOMAIN cache'[v] /\ Materialized(uri)) =>
         cache'[v][uri].phase = "probeHit"]_vars

\* the text with every $(this-folder) replaced by parent
RECURSIVE Substituted(_, _)
Substituted(text, parent) ==
  IF text = <<>> THEN <<>>
  ELSE (IF Head(text) = ThisFolder THEN parent ELSE <<Head(text)>>) \o Substituted(Tail(text), parent)

\* C10, as claimed. The record a miss writes holds the fetched text with every
\* $(this-folder) replaced by the parent location of uri, the tag input-file and
\* the identity [uri].
MissPathRecord ==
  \A v \in Views : \A uri \in DOMAIN cache[v] :
    (cache[v][uri].phase = "resolved" /\ cache[v][uri].key # NoKey
     /\ Count(fetches[v], uri) = 1) =>
      LET r == recs[store[cache[v][uri].key]] IN
      /\ r.data = Substituted(cache[v][uri].fetched.text, ParentFolderUri(uri).text)
      /\ r.metadata.artifactType = "input-file"
      /\ r.identity = <<uri>>

\* the uris whose promise in view v has resolved with a handle
ResolvedToHandle(v) ==
  {uri \in DOMAIN cache[v] : cache[v][uri].phase = "resolved" /\ cache[v][uri].key # NoKey}

\* the elements of a sequence
Range(sq) == {sq[i] : i \in DOMAIN sq}

NoDuplicates(sq) == \A i, j \in DOMAIN sq : i # j => sq[i] # sq[j]

\* C11. Enumeration on a read-through view: in every state Enum yields exactly
\* the uris whose read through the view has resolved to a handle, each once (a
\* uri that resolved to null or whose promise was rejected is not among them),
\* and a step that resolves a uri to a handle appends it to what Enum yielded
\* before, so the order is the order of resolution.
EnumeratesResolved ==
  /\ [](\A v \in Views : Range(Enum(v)) = ResolvedToHandle(v) /\ NoDuplicates(Enum(v)))
  /\ [][\A v \in Views :
         LET new == ResolvedToHandle(v)' \ ResolvedToHandle(v) IN
         IF new = {} THEN Enum(v)' = Enum(v)
         ELSE \E uri \in new : new = {uri} /\ Enum(v)' = Append(Enum(v), uri)]_vars

\* two uris are enumerated, the first found by the probe and the second fetched
\* and written
EnumeratesResolvedWitness ==
  /\ Len(Enum("v1")) = 2
  /\ Enum("v1")[1] \in DOMAIN store
  /\ Enum("v1")[2] \in ExtUris
  /\ Count(fetches["v1"], Enum("v1")[2]) = 1

\* the places of the supplied handles that have the key
PlacesOf(self, key) == {i \in DOMAIN self.handles : self.handles[i].key = key}

\* the fixed view has nothing under the key: it is disabled or was given no
\* handle of that key
QuickAbsent(self, key) == Skips(self) \/ PlacesOf(self, key) = {}

\* the first supplied handle that has the key
FirstSupplied(self, key) ==
  self.handles[CHOOSE i \in PlacesOf(self, key) : \A j \in PlacesOf(self, key) : i <= j]

\* C12. Fixed view: Enum yields the keys of the supplied handles in their order
\* when the view is enabled and the empty list when it is disabled; Read yields
\* the first supplied handle that has the key, or null when there is none or the
\* view is disabled; ReadStrict fails exactly when Read yields null, and yields
\* that handle otherwise.
FixedView ==
  LET self == answer.self
      key == answer.key
  IN
  /\ answer.op = "Enum" =>
       /\ Skips(self) => answer.result = <<>>
       /\ ~Skips(self) =>
            /\ Len(answer.result) = Len(self.handles)
            /\ \A i \in DOMAIN self.handles : answer.result[i] = self.handles[i].key
  /\ answer.op = "Read" =>
       answer.result = (IF QuickAbsent(self, key) THEN NoHandle ELSE FirstSupplied(self, key))
  /\ answer.op = "ReadStrict" =>
       /\ answer.status = "Error" <=> QuickAbsent(self, key)
       /\ answer.status = "ok" <=> ~QuickAbsent(self, key)
       /\ answer.status = "ok" => answer.result = FirstSupplied(self, key)

\* an enabled view given two different handles of one key has answered a Read
\* of that key with the first of them
FixedViewWitness ==
  /\ answer.op = "Read"
  /\ ~Skips(answer.self)
  /\ Cardinality({answer.self.handles[i] : i \in PlacesOf(answer.self, answer.key)}) = 2
  /\ answer.result = FirstSupplied(answer.self, answer.key)

\* the places of the entries of the table on the line at or before the column
InForce(table, line, column) ==
  {i \in DOMAIN table :
     table[i].generatedLine = line /\ table[i].generatedColumn <= column}

\* those among them at the largest generated column
Selected(table, line, column) ==
  {i \in InForce(table, line, column) :
     \A j \in InForce(table, line, column) :
       table[j].generatedColumn <= table[i].generatedColumn}

\* the n-th smallest element of a set of numbers
Nth(S, n) == CHOOSE i \in S : Cardinality({j \in S : j < i}) = n - 1

\* C13. resolveAtLine: the result of DataHandle.Blame is, in the order of the
\* table, the entries on the line whose generated column is the largest one not
\* beyond the column asked for, each as its original line, its original column
\* plus the distance of the column asked for from that generated column, its
\* name and its source; it is empty exactly when no entry on the line lies at or
\* before the column.
ResolveAtLine ==
  answer.op = "Blame" =>
    LET table == answer.mappings
        line == answer.position.line
        column == answer.position.column
        selected == Selected(table, line, column)
    IN /\ Len(answer.result) = Cardinality(selected)
       /\ \A n \in DOMAIN answer.result :
            LET e == table[Nth(selected, n)] IN
            answer.result[n] =
              MappedPosition(e.originalLine,
                             e.originalColumn + (column - e.generatedColumn),
                             e.name, e.source)
       /\ answer.result = <<>> <=> InForce(table, line, column) = {}

\* two entries tie at the largest column before the one asked for, behind an
\* entry at a smaller column of the line, and both are handed on shifted
ResolveAtLineWitness ==
  /\ answer.op = "Blame"
  /\ Len(answer.result) = 2
  /\ answer.result[1] # answer.result[2]
  /\ Cardinality(InForce(answer.mappings, answer.position.line, answer.position.column)) = 3
  /\ \A i \in Selected(answer.mappings, answer.position.line, answer.position.column) :
       answer.mappings[i].generatedColumn < answer.position.column

\* the table the factory of key's record yields, once its metadata is filled in
OwnTable(key) ==
  IF Initialized(recs, store[key])
  THEN CallFactory(recs[store[key]].metadata.scope.sourceMapFactory,
                   DataHandle(recs[store[key]].metadata.scope.uri,
                              store[recs[store[key]].metadata.scope.uri])).mappings
  ELSE <<>>

\* an original artifact: its record is complete and its own table is empty
Original(key) == Initialized(recs, store[key]) /\ OwnTable(key) = <<>>

\* resolveAtLine on a table, as C13 states it
ResolveAt(table, position) ==
  LET selected == Selected(table, position.line, position.column) IN
  [n \in 1..Cardinality(selected) |->
     MappedPosition(table[Nth(selected, n)].originalLine,
                    table[Nth(selected, n)].originalColumn
                      + (position.column - table[Nth(selected, n)].generatedColumn),
                    table[Nth(selected, n)].name, table[Nth(selected, n)].source)]

\* the positions each element of a sequence of positions resolves to in the own
\* table of its source, one after the other
RECURSIVE ResolveEach(_, _)
ResolveEach(positions, i) ==
  IF i > Len(positions) THEN <<>>
  ELSE ResolveAt(OwnTable(positions[i].source), positions[i]) \o ResolveEach(positions, i + 1)

\* a blame call on C at p returned, C's entries for p all lie in B, and B's own
\* table maps each of them to the original artifact A
MultiHopCase(A, B, C, p) ==
  /\ answer.op = "Blame" /\ answer.status = "ok"
  /\ answer.key = C /\ answer.position = p
  /\ B # C /\ Original(A)
  /\ ResolveAt(OwnTable(C), p) # <<>>
  /\ \A n \in DOMAIN ResolveAt(OwnTable(C), p) :
       /\ ResolveAt(OwnTable(C), p)[n].source = B
       /\ ResolveAt(OwnTable(B), ResolveAt(OwnTable(C), p)[n]) # <<>>
       /\ \A m \in DOMAIN ResolveAt(OwnTable(B), ResolveAt(OwnTable(C), p)[n]) :
            ResolveAt(OwnTable(B), ResolveAt(OwnTable(C), p)[n])[m].source = A

\* C14. Multi-hop blame: when A is original, C's entries for p lie in B and B's
\* own table maps them to A, every leaf of blame(C, p) has A as its source and
\* none has B, and the leaves are the positions got by applying resolveAtLine
\* once in C's table and once more in B's.
MultiHopBlame ==
  \A A \in DOMAIN store, B \in DOMAIN store :
    MultiHopCase(A, B, answer.key, answer.position) =>
      /\ \A n \in DOMAIN BlameLeafs(answer.tree) :
           BlameLeafs(answer.tree)[n].source = A /\ BlameLeafs(answer.tree)[n].source # B
      /\ BlameLeafs(answer.tree) =
           ResolveEach(ResolveAt(OwnTable(answer.key), answer.position), 1)

\* blame on the third stage of a chain, two columns past its entry, ended at the
\* first stage, two columns past the column the second stage's entry names
MultiHopBlameWitness ==
  \E A \in DOMAIN store, B \in DOMAIN store :
    /\ MultiHopCase(A, B, answer.key, Position(1, 7))
    /\ OwnTable(B)[1].originalColumn = 0
    /\ BlameLeafs(answer.tree) = <<MappedPosition(1, 2, <<"n1">>, A)>>

\* the subtree a path of child places leads to
RECURSIVE SubTree(_, _)
SubTree(tree, path) ==
  IF path = <<>> THEN tree ELSE SubTree(tree.blaming[Head(path)], Tail(path))

\* the paths to the nodes of a tree, and those to its nodes without children
RECURSIVE PathsOf(_)
PathsOf(tree) ==
  {<<>>} \cup UNION {{<<i>> \o path : path \in PathsOf(tree.blaming[i])} : i \in DOMAIN tree.blaming}

TerminalPaths(tree) == {path \in PathsOf(tree) : SubTree(tree, path).blaming = <<>>}

\* path a turns left of path b where they part
LeftOf(a, b) ==
  \E i \in 1..Len(a) :
    /\ i <= Len(b) /\ a[i] < b[i]
    /\ \A j \in 1..(i - 1) : a[j] = b[j]

\* a blame call returned a tree
Blamed == answer.op = "Blame" /\ answer.status = "ok"

\* C15. Blame fan-out and leaf order: every node of a blame tree has one child
\* for each entry of its artifact's table that ties at the largest generated
\* column for the node's position, in the order of the table, and the leaves of
\* the tree are its nodes without children, depth first and from left to right.
FanOutInOrder ==
  Blamed =>
    /\ \A path \in PathsOf(answer.tree) :
         [n \in DOMAIN SubTree(answer.tree, path).blaming |->
            SubTree(answer.tree, path).blaming[n].node]
           = ResolveAt(OwnTable(SubTree(answer.tree, path).node.source),
                       SubTree(answer.tree, path).node)
    /\ Len(BlameLeafs(answer.tree)) = Cardinality(TerminalPaths(answer.tree))
    /\ \A path \in TerminalPaths(answer.tree) :
         BlameLeafs(answer.tree)[
             1 + Cardinality({other \in TerminalPaths(answer.tree) : LeftOf(other, path)})]
           = SubTree(answer.tree, path).node

\* two entries tie for the position asked for and name two original artifacts:
\* two children, two leaves, the first entry's first
FanOutInOrderWitness ==
  /\ Blamed
  /\ Cardinality(Selected(OwnTable(answer.key), answer.position.line,
                          answer.position.column)) = 2
  /\ Len(answer.tree.blaming) = 2
  /\ Len(BlameLeafs(answer.tree)) = 2
  /\ BlameLeafs(answer.tree)[1].source # BlameLeafs(answer.tree)[2].source
  /\ BlameLeafs(answer.tree)[1].name = <<"n1">>
  /\ \A n \in 1..2 : Original(BlameLeafs(answer.tree)[n].source)

\* a tree whose first child fans out again below: three leaves, the two below
\* the first child before the second child
FanOutNested ==
  /\ Blamed
  /\ TerminalPaths(answer.tree) = {<<1, 1>>, <<1, 2>>, <<2>>}
  /\ BlameLeafs(answer.tree)[3] = answer.tree.blaming[2].node
  /\ BlameLeafs(answer.tree)[1] # BlameLeafs(answer.tree)[3]

\* the longest path of a tree
Depth(tree) == MaxOf({Len(path) : path \in PathsOf(tree)})

\* C16. Blame termination: a call of blame comes back with a tree or with the
\* error of a key that is not there or not yet complete, and never exhausts the
\* stack, whatever the tables of the store name as their sources.
BlameTerminates == answer.op = "Blame" => answer.status # "RangeError"

\* where no table names its own artifact the recursion is as deep as the chain
\* of stages is long, far from the limit of the stack
AcyclicBlameIsShallow ==
  (Blamed /\ \A key \in DOMAIN store : \A n \in DOMAIN OwnTable(key) :
               OwnTable(key)[n].source # key)
    => Depth(answer.tree) < Cardinality(DOMAIN store)

\* the description the call that made the key was given
DescribedAs(key) == log[CHOOSE i \in DOMAIN log : log[i].key = key].description

\* the entries of a flattened table for one entry of the own table: one for each
\* leaf, at the entry's generated position
EntriesFor(entry, leaves) ==
  [n \in DOMAIN leaves |->
     MappingItem(entry.generatedLine, entry.generatedColumn,
                 leaves[n].line, leaves[n].column, leaves[n].name,
                 DescribedAs(leaves[n].source))]

\* those entries for the i-th entry of key's own table and the ones after it
RECURSIVE FlattenedFrom(_, _)
FlattenedFrom(key, i) ==
  IF i > Len(OwnTable(key)) THEN <<>>
  ELSE EntriesFor(OwnTable(key)[i],
                  BlameLeafs(Blame(store, recs, key,
                                   Position(OwnTable(key)[i].generatedLine,
                                            OwnTable(key)[i].generatedColumn)).value))
         \o FlattenedFrom(key, i + 1)

\* the flattened table of key's record has been computed
Flattened(key) ==
  /\ Initialized(recs, store[key])
  /\ recs[store[key]].metadata.inputSourceMap.status = "ok"

\* C17. flatten(key): a flattened table that has been computed holds, for each
\* entry of the record's own table in turn and each leaf of blame at the entry's
\* generated position in turn, one entry with that generated position, the
\* leaf's position and name, and as its source the description the leaf's
\* artifact was written with, and nothing else.
FlattenPerLeaf ==
  \A key \in DOMAIN store :
    Flattened(key) =>
      recs[store[key]].metadata.inputSourceMap.value.mappings
        = FlattenedFrom(recs[store[key]].metadata.scope.uri, 1)

\* the flattened table of a stage two hops from its original, with two own
\* entries and three leaves for each
FlattenPerLeafWitness ==
  \E key \in DOMAIN store :
    /\ Flattened(key)
    /\ Len(OwnTable(key)) = 2
    /\ Len(recs[store[key]].metadata.inputSourceMap.value.mappings) = 6
    /\ \A n \in 1..6 :
         recs[store[key]].metadata.inputSourceMap.value.mappings[n].source = <<"s", "/", "0">>

\* no table of the store names its own artifact
NoSelfReference ==
  \A key \in DOMAIN store : \A n \in DOMAIN OwnTable(key) : OwnTable(key)[n].source # key

\* C18. The flattened table names only original artifacts: in a store where no
\* table names its own artifact, every source of an entry of a computed
\* flattened table is the description of an artifact whose own table is empty.
FlattenNamesOriginals ==
  NoSelfReference =>
    \A key \in DOMAIN store :
      Flattened(key) =>
        \A n \in DOMAIN recs[store[key]].metadata.inputSourceMap.value.mappings :
          \A source \in DOMAIN store :
            DescribedAs(source)
                = recs[store[key]].metadata.inputSourceMap.value.mappings[n].source
              => Original(source)

\* the views made from the own mapping table
MappingViews == {"sourceMap", "sourceMapEachMappingByLine", "inputSourceMap"}

\* the table the factory of key's record yields names a key that is not there
Dangles(key) == \E n \in DOMAIN OwnTable(key) : ~Has(store, OwnTable(key)[n].source)

\* the i-th call was a write with a factory that has come back
WroteWithFactory(i) ==
  log[i].op = "write" /\ log[i].sourceMapFactory.given /\ log[i].status = "ok"

\* C19. Dangling mapping reference: a write with a factory never fails for what
\* its table names, and the record it made is readable with the content and the
\* identity written; the error DanglingMappingReference is only ever the
\* outcome of reading one of the mapping views of a record whose table names an
\* absent key, or the flattened table of a record derived from such a record,
\* and a read of the mapping views of such a record never succeeds; an own
\* table that has been obtained names only keys of the store.
DanglingIsLazy ==
  /\ \A i \in DOMAIN log :
       /\ log[i].status # "DanglingMappingReference"
       /\ WroteWithFactory(i) =>
            /\ Read(store, log[i].key).status = "ok"
            /\ ReadData(recs, Read(store, log[i].key).handle) = log[i].data
            /\ IdentityOf(recs, Read(store, log[i].key).handle) = log[i].identity
  /\ answer.op = "Value" /\ answer.status = "DanglingMappingReference"
       => \/ answer.view \in MappingViews /\ Dangles(answer.key)
          \/ answer.view = "inputSourceMap" /\ \E key \in DOMAIN store : Dangles(key)
  /\ answer.op = "Value" /\ answer.status = "ok" /\ answer.view \in MappingViews
       => ~Dangles(answer.key)
  /\ \A key \in DOMAIN store :
       Initialized(recs, store[key]) /\ recs[store[key]].metadata.sourceMap.status = "ok"
         => \A source \in recs[store[key]].metadata.sourceMap.value.sources
                            \cup {recs[store[key]].metadata.sourceMap.value.file} :
              recs[store[key]].metadata.scope.sourceMapFactory.given => Has(store, source)

\* a write whose table names an absent key came back, its content was there to
\* read, and the first read of its own table then failed
DanglingIsLazyWitness ==
  /\ answer.op = "Value" /\ answer.view = "sourceMap"
  /\ answer.status = "DanglingMappingReference"
  /\ answer.calls = 1
  /\ \E i \in DOMAIN log :
       /\ WroteWithFactory(i)
       /\ log[i].key = answer.key
       /\ ReadData(recs, Read(store, log[i].key).handle) = <<"y">>

\* how often the factory of the view `name` has run in the records, from the
\* r-th on, that hold the metadata object the write of uri made
RECURSIVE RunsFrom(_, _, _)
RunsFrom(uri, name, r) ==
  IF r > Len(recs) THEN 0
  ELSE (IF Initialized(recs, r) /\ recs[r].metadata.scope.uri = uri
        THEN recs[r].metadata[name].runs ELSE 0)
       + RunsFrom(uri, name, r + 1)

\* C20. Each derived view is computed at most once: for every write and each of
\* the five views, the view's factory has run at most once however often and
\* through whichever key and handle the view was read, and it has run exactly
\* once if the view was read at all; the mapping factory handed to the write
\* runs only within the factory of the own mapping table.
ComputedAtMostOnce ==
  \A i \in DOMAIN log :
    log[i].op = "write" =>
      /\ \A name \in ViewNames : RunsFrom(log[i].key, name, 1) <= 1
      /\ \A key \in DOMAIN store :
           Initialized(recs, store[key]) /\ recs[store[key]].metadata.scope.uri = log[i].key
             => \A name \in ViewNames :
                  recs[store[key]].metadata[name].reads > 0
                    => recs[store[key]].metadata[name].runs = 1

\* the own mapping table of a record was read twice, the second time through a
\* forwarded key, and its factory ran once
ComputedAtMostOnceWitness ==
  /\ answer.op = "Value" /\ answer.view = "sourceMap" /\ answer.calls = 2
  /\ \E i \in DOMAIN log :
       /\ log[i].op = "forward" /\ log[i].key = answer.key
       /\ Initialized(recs, store[answer.key])
       /\ recs[store[answer.key]].metadata.scope.sourceMapFactory.given
       /\ recs[store[answer.key]].metadata.sourceMap.reads = 2
       /\ recs[store[answer.key]].metadata.sourceMap.runs = 1
       /\ recs[store[answer.key]].metadata.sourceMap.status = "ok"

\* DataStore.Read of a key of the store succeeds, cancelled or not
StoreReadIgnoresCancel ==
  \A key \in DOMAIN store : Read(store, key).status = "ok"

\* C21. In-flight reads are not aborted by cancellation: a read through the view
\* that had started, and whose fetch had not returned, when cancellation was
\* requested does not fail; when its fetch has yielded text that is not empty it
\* goes on to a handle.
InFlightReadCompletes ==
  answer.op = "Cancel" =>
    \A read \in answer.inFlight :
      /\ cache[read[1]][read[2]].phase # "rejected"
      /\ Truthy(cache[read[1]][read[2]].fetched)
           => cache[read[1]][read[2]].phase \in {"writing", "resolved"}

\* C22. Every record present in the store is fully initialized: in every state,
\* those between the suspension points of a write included, each key of the
\* store maps to a record whose tag and view slots are set.
RecordsInitialized ==
  \A key \in DOMAIN store :
    /\ Initialized(recs, store[key])
    /\ recs[store[key]].metadata.artifactType # Undefined

\* no read of a view through a handle of a present key fails on a metadata
\* object that has no views yet
NoReadSeesUnset == answer.op = "Value" => answer.status # "TypeError"

\* the fetch of the read of uri through view v has returned with nothing: absent,
\* empty text or a failure of the accessor
FetchedNothing(v, uri) ==
  /\ Cached(cache[v], uri)
  /\ Count(fetches[v], uri) > 0
  /\ cache[v][uri].phase # "fetching"
  /\ cache[v][uri].fetched \in {Null, Throw, Text(<<>>)}

\* C23. At most one fetch per uri and view, whatever its outcome: the accessor is
\* never invoked twice for a uri; once a fetch has returned absent, empty text
\* or a failure, the promise of the slot is resolved to absent, not rejected,
\* the view has written nothing for the uri, and the slot and the count of
\* fetches stay as they are in every later step, so every later read is handed
\* the same absent result.
FetchOnceWhateverOutcome ==
  /\ [](\A v \in Views, uri \in ExtUris :
          /\ \A any \in DOMAIN fetches[v] : fetches[v][any] <= 1
          /\ FetchedNothing(v, uri) =>
               /\ cache[v][uri].phase = "resolved"
               /\ cache[v][uri].key = NoKey
               /\ \A i \in DOMAIN log : ~(log[i].owner = v /\ log[i].description = uri))
  /\ [][\A v \in Views, uri \in ExtUris :
          FetchedNothing(v, uri) =>
            /\ cache'[v][uri] = cache[v][uri]
            /\ fetches'[v][uri] = fetches[v][uri]]_vars

\* a read whose accessor failed is resolved to absent, and one whose accessor
\* yielded text is resolved to a handle, in one view
FetchOnceWitness ==
  \E uri \in ExtUris, other \in ExtUris :
    /\ FetchedNothing("v1", uri)
    /\ cache["v1"][uri].fetched = Throw
    /\ cache["v1"][uri].phase = "resolved"
    /\ Cached(cache["v1"], other)
    /\ cache["v1"][other].phase = "resolved"
    /\ cache["v1"][other].key # NoKey

\* C24. Every uri Enum yields can be read through the view: its slot holds a
\* promise that has resolved to the handle of a key of the store, so ReadStrict
\* of the uri succeeds, and no later step fetches for the uri, writes for it or
\* changes its slot.
EnumeratedIsReadable ==
  /\ [](\A v \in Views : \A n \in DOMAIN Enum(v) :
          /\ Cached(cache[v], Enum(v)[n])
          /\ cache[v][Enum(v)[n]].phase = "resolved"
          /\ ReadStrict(RTResult(v, Enum(v)[n])).status = "ok"
          /\ Has(store, ReadStrict(RTResult(v, Enum(v)[n])).handle.key))
  /\ [][\A v \in Views : \A n \in DOMAIN Enum(v) :
          /\ cache'[v][Enum(v)[n]] = cache[v][Enum(v)[n]]
          /\ Count(fetches'[v], Enum(v)[n]) = Count(fetches[v], Enum(v)[n])
          /\ \A i \in DOMAIN log' :
               log'[i].owner = v /\ log'[i].description = Enum(v)[n] => i \in DOMAIN log]_vars

\* after cancellation, a uri that was fetched and written is enumerated and its
\* handle gives the content that was fetched
EnumeratedIsReadableWitness ==
  /\ cancelled
  /\ \E n \in DOMAIN Enum("v1") :
       /\ Enum("v1")[n] \in ExtUris
       /\ ReadStrict(RTResult("v1", Enum("v1")[n])).status = "ok"
       /\ ReadData(recs, RTResult("v1", Enum("v1")[n])) = <<"x">>

\* the key the m-th file of the dump belongs to, its handle in the view, and the
\* place of the file among the three of its key
FileKey(m) == answer.keys[((m - 1) \div 3) + 1]
FileHandle(m) == CHOOSE h \in Handles : h.key = FileKey(m)
FileKind(m) == (m - 1) % 3

\* <path> of a key: the key without the colon of its scheme, under the folder
PathOf(key) == <<"file://", "out", "/", "mem//">> \o Tail(key)

\* the m-th file of the dump is the one Dump is to write there
FileInOrder(m) ==
  /\ FileKind(m) = 0 =>
       /\ answer.written[m].uri = PathOf(FileKey(m))
       /\ answer.written[m].data = recs[FileHandle(m).read].data
  /\ FileKind(m) = 1 =>
       /\ answer.written[m].uri = PathOf(FileKey(m)) \o <<".map">>
       /\ Initialized(recs, FileHandle(m).read)
       /\ recs[FileHandle(m).read].metadata.sourceMap.status = "ok"
       /\ answer.written[m].data[2] = recs[FileHandle(m).read].metadata.sourceMap.value
  /\ FileKind(m) = 2 =>
       /\ answer.written[m].uri = PathOf(FileKey(m)) \o <<".input.map">>
       /\ Initialized(recs, FileHandle(m).read)
       /\ recs[FileHandle(m).read].metadata.inputSourceMap.status = "ok"
       /\ answer.written[m].data[2] = recs[FileHandle(m).read].metadata.inputSourceMap.value

\* a step of the dump
DumpStep == answer' # answer

====
